---- MODULE Spec2Model ----
(***************************************************************************)
(* Model of app.py: the module-level startup (three try/except load        *)
(* blocks), and the /recommend handler run by concurrent worker threads.   *)
(*                                                                         *)
(* Numbers.  Python floats are modelled as exact rationals <<n, d>> with   *)
(* d > 0 in lowest terms; IEEE-754 rounding is not modelled.  Literals     *)
(* such as 0.30 are the rationals 3/10.                                    *)
(***************************************************************************)
EXTENDS Integers, Sequences, FiniteSets

(***************************************************************************)
(* Rational arithmetic (Python's float +, *, /, <=, >=)                    *)
(***************************************************************************)
Abs(x) == IF x < 0 THEN -x ELSE x

RECURSIVE GCD(_, _)
GCD(a, b) == IF b = 0 THEN a ELSE GCD(b, a % b)

Rat(n, d) ==
    LET g == GCD(Abs(n), Abs(d))
        s == IF d < 0 THEN -1 ELSE 1
    IN  <<(s * n) \div g, (s * d) \div g>>

Int2Rat(i) == <<i, 1>>

RatAdd(x, y) == Rat(x[1] * y[2] + y[1] * x[2], x[2] * y[2])

RatMul(x, y) == Rat(x[1] * y[1], x[2] * y[2])

\* Defined only for y # 0; Python raises ZeroDivisionError otherwise.
RatDiv(x, y) == Rat(x[1] * y[2], x[2] * y[1])

RatIsZero(x) == x[1] = 0

RatLe(x, y) == x[1] * y[2] <= y[1] * x[2]

RatGe(x, y) == RatLe(y, x)

RatLt(x, y) == x[1] * y[2] < y[1] * x[2]

(***************************************************************************)
(* Program constants                                                       *)
(***************************************************************************)
calories_per_kg == 7700

DaysPerWeek == 7

MaxSample == 3

FatKcalPerGram == 9

CarbKcalPerGram == 4

required_features ==
    <<"calories", "total fat (PDV)", "sugar (PDV)", "sodium (PDV)",
      "protein (PDV)", "saturated fat (PDV)", "carbohydrates (PDV)">>

AttributeKeys ==
    <<"age", "weight", "height", "BMI", "BMR", "activity_level",
      "gender_F", "gender_M">>

\* Faulty variant of Meals: the meals in sorted-key order.
MealsSorted == <<"Breakfast", "Dinner", "Lunch">>

Meals == <<"Breakfast", "Lunch", "Dinner">>

ErrorMessage == "Missing or incorrect user attribute keys"

(***************************************************************************)
(* Pure functions of the request path                                      *)
(***************************************************************************)
calculate_macronutrients(user_calories) ==
    [total_fat     |-> RatDiv(RatMul(user_calories, Rat(30, 100)), Int2Rat(FatKcalPerGram)),
     sugar         |-> RatDiv(RatMul(user_calories, Rat(10, 100)), Int2Rat(CarbKcalPerGram)),
     sodium        |-> RatDiv(RatMul(user_calories, Rat(5, 100)), Int2Rat(CarbKcalPerGram)),
     protein       |-> RatDiv(RatMul(user_calories, Rat(15, 100)), Int2Rat(CarbKcalPerGram)),
     saturated_fat |-> RatDiv(RatMul(user_calories, Rat(10, 100)), Int2Rat(FatKcalPerGram)),
     carbohydrates |-> RatDiv(RatMul(user_calories, Rat(30, 100)), Int2Rat(CarbKcalPerGram))]

\* The divisor of line 56; the division raises when it is zero.
AdjustmentDivisor(weeks) == RatMul(weeks, Int2Rat(DaysPerWeek))

\* Faulty variant of adjust_calories_for_goal: divides by weeks, not by weeks * 7.
adjust_calories_per_week(calories, weight_goal_kg, weeks) ==
    RatAdd(calories, RatDiv(RatMul(Int2Rat(calories_per_kg), weight_goal_kg), weeks))

adjust_calories_for_goal(calories, weight_goal_kg, weeks) ==
    LET daily_calorie_adjustment ==
            RatDiv(RatMul(Int2Rat(calories_per_kg), weight_goal_kg),
                   AdjustmentDivisor(weeks))
    IN  RatAdd(calories, daily_calorie_adjustment)

\* Faulty variant of calorie_distribution: lunch gets 30% instead of 35%.
calorie_distribution_short(target_calories) ==
    <<RatMul(target_calories, Rat(25, 100)),
      RatMul(target_calories, Rat(30, 100)),
      RatMul(target_calories, Rat(40, 100))>>

calorie_distribution(target_calories) ==
    <<RatMul(target_calories, Rat(25, 100)),
      RatMul(target_calories, Rat(35, 100)),
      RatMul(target_calories, Rat(40, 100))>>

\* Faulty variant of CalorieMask: orders the two bounds before comparing.
CalorieMaskOrdered(rows, meal_calories, lo, hi) ==
    LET a == RatMul(meal_calories, lo)
        b == RatMul(meal_calories, hi)
        low == IF RatLe(a, b) THEN a ELSE b
        high == IF RatLe(a, b) THEN b ELSE a
    IN  {i \in DOMAIN rows :
            /\ RatLe(rows[i].nutrition[1], high)
            /\ RatGe(rows[i].nutrition[1], low)}

\* Row indices of rows whose calories lie between lo*meal_calories and
\* hi*meal_calories, as the boolean mask of lines 72 and 76 selects them.
CalorieMask(rows, meal_calories, lo, hi) ==
    {i \in DOMAIN rows :
        /\ RatLe(rows[i].nutrition[1], RatMul(meal_calories, hi))
        /\ RatGe(rows[i].nutrition[1], RatMul(meal_calories, lo))}

\* Faulty variant of filtered_recipes: no fallback to the wide range.
filtered_recipes_no_fallback(rows, meal_calories) ==
    CalorieMask(rows, meal_calories, Rat(8, 10), Rat(12, 10))

\* Lines 72-76.
filtered_recipes(rows, meal_calories) ==
    LET primary == CalorieMask(rows, meal_calories, Rat(8, 10), Rat(12, 10))
    IN  IF primary = {}
        THEN CalorieMask(rows, meal_calories, Rat(5, 10), Rat(15, 10))
        ELSE primary

Min(a, b) == IF a < b THEN a ELSE b

SampleSize(filtered) == Min(MaxSample, Cardinality(filtered))

\* Faulty variant of sample_recipes: sampling with replacement.
sample_recipes_with_replacement(filtered) ==
    [1..SampleSize(filtered) -> filtered]

\* DataFrame.sample(n): every ordered selection of n distinct rows.
sample_recipes(filtered) ==
    LET n == SampleSize(filtered)
    IN  {s \in [1..n -> filtered] : \A i, j \in 1..n : i # j => s[i] # s[j]}

\* One entry of meal_recommendations (lines 81-92).
FoodEntry(rows, i) ==
    [name      |-> rows[i].name,
     nutrition |-> [calories      |-> rows[i].nutrition[1],
                    total_fat     |-> rows[i].nutrition[2],
                    sugar         |-> rows[i].nutrition[3],
                    sodium        |-> rows[i].nutrition[4],
                    protein       |-> rows[i].nutrition[5],
                    saturated_fat |-> rows[i].nutrition[6],
                    carbohydrates |-> rows[i].nutrition[7]]]

MealEntry(rows, meal, sample) ==
    [meal |-> meal, foods |-> [k \in DOMAIN sample |-> FoodEntry(rows, sample[k])]]

\* All results get_food_recommendations can return for a target (the
\* sampling is random), each with the candidate sets it was drawn from.
get_food_recommendations(rows, target_calories) ==
    LET dist == calorie_distribution(target_calories)
        cand == [m \in 1..3 |-> filtered_recipes(rows, dist[m])]
    IN  {[budgets |-> dist, candidates |-> cand, samples |-> <<s1, s2, s3>>,
          recommendations |-> <<MealEntry(rows, Meals[1], s1),
                                MealEntry(rows, Meals[2], s2),
                                MealEntry(rows, Meals[3], s3)>>] :
            s1 \in sample_recipes(cand[1]),
            s2 \in sample_recipes(cand[2]),
            s3 \in sample_recipes(cand[3])}

(***************************************************************************)
(* The files on disk and the request bodies clients send                   *)
(***************************************************************************)
NumWorkers == 2

Workers == 1..NumWorkers

\* A row of RAW_recipes.csv: the name and the tokens of its nutrition list.
Row(name, tokens) ==
    [name |-> name, nutrition |-> [k \in DOMAIN tokens |-> Int2Rat(tokens[k])]]

\* Includes a duplicated row and a row with negative calories.
RecipesFile ==
    <<Row("bad entry", <<-600, 0, 0, 0, 0, 0, 0>>),
      Row("oat bowl", <<100, 3, 9, 1, 4, 2, 6>>),
      Row("veggie pie", <<860, 44, 15, 31, 28, 40, 30>>),
      Row("fish stew", <<900, 35, 6, 50, 70, 20, 10>>),
      Row("nut loaf", <<940, 70, 11, 18, 40, 33, 25>>),
      Row("beef roast", <<980, 60, 2, 40, 90, 80, 3>>),
      Row("beef roast", <<980, 60, 2, 40, 90, 80, 3>>)>>

\* A file whose nutrition lists have six entries: line 21 raises.
RecipesMalformed ==
    <<Row("short", <<500, 1, 2, 3, 4, 5>>)>>

\* A small file: no meal ever has more than two candidate rows.
RecipesSmall ==
    <<Row("bad entry", <<-600, 0, 0, 0, 0, 0, 0>>),
      Row("oat bowl", <<100, 3, 9, 1, 4, 2, 6>>),
      Row("lentil soup", <<360, 12, 4, 20, 30, 5, 14>>),
      Row("veggie pie", <<880, 44, 15, 31, 28, 40, 30>>)>>

RecipeFiles == {RecipesSmall, RecipesFile, RecipesMalformed}

\* linear_regression_model.pkl: intercept and one coefficient per feature.
RegressorFiles ==
    {[intercept |-> 0, coef |-> <<0, 10, 0, 0, 1, 0, 0, 0>>]}

\* kmeans_model.pkl / mean_shift_model.pkl: opaque; a label per calorie band.
ClusterFiles ==
    [kmeans |-> [cut |-> Int2Rat(500)], mean_shift |-> [cut |-> Int2Rat(800)]]

Profile1 ==
    [age |-> 30, weight |-> 70, height |-> 170, BMI |-> 24, BMR |-> 1300,
     activity_level |-> 1, gender_F |-> 1, gender_M |-> 0]

Profile2 ==
    [age |-> 41, weight |-> 60, height |-> 180, BMI |-> 19, BMR |-> 1000,
     activity_level |-> 2, gender_F |-> 0, gender_M |-> 1]

AllKeys == {AttributeKeys[i] : i \in DOMAIN AttributeKeys}

\* The "attributes" object holding the keys K of profile p.
Attrs(p, K) == [k \in K |-> Int2Rat(p[k])]

\* (weight_goal_kg, weeks) pairs sent by clients.
Goals ==
    {[weight_goal_kg |-> Int2Rat(0), weeks |-> Int2Rat(1)],
     [weight_goal_kg |-> Int2Rat(-5), weeks |-> Int2Rat(10)],
     [weight_goal_kg |-> Int2Rat(-40), weeks |-> Int2Rat(10)],
     [weight_goal_kg |-> Int2Rat(2), weeks |-> Int2Rat(-2)]}

\* JSON bodies: complete ones, ones without "weeks"/"weight_goal_kg", ones
\* whose attributes lack a key, and ones without "attributes".
Bodies ==
    {[attributes |-> Attrs(Profile1, AllKeys),
      weight_goal_kg |-> g.weight_goal_kg, weeks |-> g.weeks] : g \in Goals}
    \cup {[attributes |-> Attrs(Profile2, AllKeys),
           weight_goal_kg |-> Int2Rat(0), weeks |-> Int2Rat(1)],
          [attributes |-> Attrs(Profile1, AllKeys)],
          [attributes |-> Attrs(Profile1, AllKeys \ {"age"}),
           weight_goal_kg |-> Int2Rat(0), weeks |-> Int2Rat(1)],
          [attributes |-> Attrs(Profile2, AllKeys \ {"gender_M"})],
          [weight_goal_kg |-> Int2Rat(0), weeks |-> Int2Rat(1)]}

\* dict.get(key, default)
Get(d, key, default) == IF key \in DOMAIN d THEN d[key] ELSE default

EmptyDict == [k \in {} |-> 0]

(***************************************************************************)
(* State                                                                   *)
(***************************************************************************)
VARIABLES
    disk,                     \* the files the process reads at startup
    main_pc,                  \* position of the module-level code
    kmeans_model,             \* module globals; defined = FALSE: name unbound
    mean_shift_model,
    linear_regression_model,
    recipes_data,
    nutrient_data,
    req                       \* per worker thread: the handler's locals

vars == <<disk, main_pc, kmeans_model, mean_shift_model,
          linear_regression_model, recipes_data, nutrient_data, req>>

globals == <<kmeans_model, mean_shift_model, linear_regression_model,
             recipes_data, nutrient_data>>

Unbound == [defined |-> FALSE, value |-> <<>>]

Bound(v) == [defined |-> TRUE, value |-> v]

\* A DataFrame: its rows and the names of its columns.
Frame(rows, columns, kmeans, meanshift) ==
    [rows |-> rows, columns |-> columns,
     kmeans_cluster |-> kmeans, meanshift_cluster |-> meanshift]

RawColumns == {"name", "nutrition"}

FeatureColumns == {required_features[i] : i \in DOMAIN required_features}

ZeroRat == Int2Rat(0)

NoTargets ==
    [total_fat |-> ZeroRat, sugar |-> ZeroRat, sodium |-> ZeroRat,
     protein |-> ZeroRat, saturated_fat |-> ZeroRat, carbohydrates |-> ZeroRat]

NoResponse == [status |-> 0, json |-> <<>>, exception |-> ""]

\* The locals of a thread that is handling no request.
Idle ==
    [pc |-> "idle", stages |-> <<>>, data |-> <<>>, attributes |-> <<>>,
     weight_goal_kg |-> ZeroRat, weeks |-> ZeroRat, user_features |-> <<>>,
     base_calories |-> ZeroRat, adjusted_calories |-> ZeroRat,
     macronutrient_targets |-> NoTargets, budgets |-> <<>>,
     candidates |-> <<>>, samples |-> <<>>, recommendations |-> <<>>,
     response |-> NoResponse]

\* The state when the interpreter starts executing the module.
Boot(files) ==
    /\ disk \in [recipes : files, regressor : RegressorFiles]
    /\ main_pc = "load_models"
    /\ kmeans_model = Unbound
    /\ mean_shift_model = Unbound
    /\ linear_regression_model = Unbound
    /\ recipes_data = Unbound
    /\ nutrient_data = Unbound
    /\ req = [w \in Workers |-> Idle]

Init == Boot({RecipesSmall})

(***************************************************************************)
(* Startup: module-level code, lines 6-40 and 130-132                      *)
(***************************************************************************)
\* Lines 7-12.  joblib.load may raise at any of the three loads; the except
\* clause prints and execution continues with the later names unbound.
LoadModels ==
    /\ main_pc = "load_models"
    /\ \E loaded \in 0..3 :
        /\ kmeans_model' = IF loaded >= 1 THEN Bound(ClusterFiles.kmeans) ELSE Unbound
        /\ mean_shift_model' =
                IF loaded >= 2 THEN Bound(ClusterFiles.mean_shift) ELSE Unbound
        /\ linear_regression_model' =
                IF loaded >= 3 THEN Bound(disk.regressor) ELSE Unbound
    /\ main_pc' = "load_data"
    /\ UNCHANGED <<disk, recipes_data, nutrient_data, req>>

\* Number of columns str.split(",", expand=True) produces.
SplitWidth(rows) ==
    LET lens == {Len(rows[i].nutrition) : i \in DOMAIN rows}
    IN  CHOOSE n \in lens : \A k \in lens : k <= n

\* Lines 15-26.
LoadData ==
    /\ main_pc = "load_data"
    /\ \/ \* read_csv('RAW_recipes.csv') raises
          /\ recipes_data' = Unbound
          /\ nutrient_data' = Unbound
       \/ \* read_csv('Dataset.csv') raises: recipes_data stays as read
          /\ recipes_data' = Bound(Frame(disk.recipes, RawColumns, <<>>, <<>>))
          /\ nutrient_data' = Unbound
       \/ \* both files read; line 21 raises unless the split has 7 columns
          /\ nutrient_data' = Bound("Dataset.csv")
          /\ recipes_data' =
                IF SplitWidth(disk.recipes) = Len(required_features)
                THEN Bound(Frame(disk.recipes, RawColumns \cup FeatureColumns, <<>>, <<>>))
                ELSE Bound(Frame(disk.recipes, RawColumns, <<>>, <<>>))
    /\ main_pc' = "cluster"
    /\ UNCHANGED <<disk, kmeans_model, mean_shift_model, linear_regression_model, req>>

\* model.predict(recipes_data[required_features].fillna(0)): one label per row.
ClusterLabels(model, rows) ==
    [i \in DOMAIN rows |->
        IF RatLt(rows[i].nutrition[1], model.cut) THEN 0 ELSE 1]

CanCluster(model) ==
    /\ model.defined
    /\ recipes_data.defined
    /\ FeatureColumns \subseteq recipes_data.value.columns

\* Lines 29-37.  Line 34 raises when kmeans_model or recipes_data is unbound
\* or the feature columns are missing; line 35 likewise, after line 34 has
\* already added its column.
ApplyClustering ==
    /\ main_pc = "cluster"
    /\ LET rd == recipes_data.value
       IN  IF ~CanCluster(kmeans_model)
           THEN recipes_data' = recipes_data
           ELSE LET k == ClusterLabels(kmeans_model.value, rd.rows)
                    cols == rd.columns \cup {"kmeans_cluster"}
                IN  IF ~CanCluster(mean_shift_model)
                    THEN recipes_data' = Bound(Frame(rd.rows, cols, k, <<>>))
                    ELSE recipes_data' =
                            Bound(Frame(rd.rows, cols \cup {"meanshift_cluster"}, k,
                                        ClusterLabels(mean_shift_model.value, rd.rows)))
    /\ main_pc' = "create_app"
    /\ UNCHANGED <<disk, kmeans_model, mean_shift_model, linear_regression_model,
                   nutrient_data, req>>

\* Lines 40 and 130-132: the app is created and starts serving whatever the
\* load blocks left behind.
StartServer ==
    /\ main_pc = "create_app"
    /\ main_pc' = "serving"
    /\ UNCHANGED <<disk, globals, req>>

(***************************************************************************)
(* The /recommend handler, lines 99-128, one thread per worker             *)
(***************************************************************************)
RECURSIVE Dot(_, _, _)
Dot(coef, x, n) ==
    IF n = 0 THEN ZeroRat
    ELSE RatAdd(Dot(coef, x, n - 1), RatMul(Int2Rat(coef[n]), x[n]))

\* linear_regression_model.predict([user_features])[0]
RegressorPredict(model, features) ==
    RatAdd(Int2Rat(model.intercept), Dot(model.coef, features, Len(model.coef)))

\* An exception no except clause catches: the framework answers 500.
Raise(r, stage, exception) ==
    [r EXCEPT !.pc = "done", !.stages = Append(@, stage),
              !.response = [status |-> 500, json |-> <<>>, exception |-> exception]]

\* Lines 101-104.
Receive(w) ==
    /\ main_pc = "serving"
    /\ req[w].pc = "idle"
    /\ \E data \in Bodies :
        req' = [req EXCEPT ![w] =
                  [@ EXCEPT !.pc = "validate",
                            !.stages = <<"Receive">>,
                            !.data = data,
                            !.attributes = Get(data, "attributes", EmptyDict),
                            !.weight_goal_kg = Get(data, "weight_goal_kg", ZeroRat),
                            !.weeks = Get(data, "weeks", ZeroRat)]]
    /\ UNCHANGED <<disk, main_pc, globals>>

\* Faulty variant of Validate: absent keys default to 0 (attributes.get(key, 0)).
ValidateDefaulting(w) ==
    /\ req[w].pc = "validate"
    /\ req' = [req EXCEPT ![w] =
                 [@ EXCEPT !.pc = "predict",
                           !.stages = Append(@, "Validate"),
                           !.user_features =
                               [i \in DOMAIN AttributeKeys |->
                                   Get(req[w].attributes, AttributeKeys[i], ZeroRat)]]]
    /\ UNCHANGED <<disk, main_pc, globals>>

\* Lines 108-111 with the except clause of lines 113-114: building
\* user_features raises KeyError at the first absent key.
Validate(w) ==
    /\ req[w].pc = "validate"
    /\ LET r == req[w]
       IN  IF \E i \in DOMAIN AttributeKeys : AttributeKeys[i] \notin DOMAIN r.attributes
           THEN req' = [req EXCEPT ![w] =
                          [r EXCEPT !.pc = "done",
                                    !.stages = Append(@, "Validate"),
                                    !.response = [status |-> 400,
                                                  json |-> [error |-> ErrorMessage],
                                                  exception |-> ""]]]
           ELSE req' = [req EXCEPT ![w] =
                          [r EXCEPT !.pc = "predict",
                                    !.stages = Append(@, "Validate"),
                                    !.user_features =
                                        [i \in DOMAIN AttributeKeys |->
                                            r.attributes[AttributeKeys[i]]]]]
    /\ UNCHANGED <<disk, main_pc, globals>>

\* Faulty variant of Predict: reuses the baseline another thread has just predicted.
PredictCached(w) ==
    /\ req[w].pc = "predict"
    /\ LET r == req[w]
           busy == {v \in Workers \ {w} :
                        req[v].pc \in {"adjust", "targets", "assemble", "respond"}}
       IN  IF ~linear_regression_model.defined
           THEN req' = [req EXCEPT ![w] = Raise(r, "Predict", "NameError")]
           ELSE req' = [req EXCEPT ![w] =
                          [r EXCEPT !.pc = "adjust",
                                    !.stages = Append(@, "Predict"),
                                    !.base_calories =
                                        IF busy # {}
                                        THEN req[CHOOSE v \in busy : TRUE].base_calories
                                        ELSE RegressorPredict(linear_regression_model.value,
                                                              r.user_features)]]
    /\ UNCHANGED <<disk, main_pc, globals>>

\* Line 112.  An unbound linear_regression_model raises NameError, which
\* "except KeyError" does not catch.
Predict(w) ==
    /\ req[w].pc = "predict"
    /\ LET r == req[w]
       IN  IF ~linear_regression_model.defined
           THEN req' = [req EXCEPT ![w] = Raise(r, "Predict", "NameError")]
           ELSE req' = [req EXCEPT ![w] =
                          [r EXCEPT !.pc = "adjust",
                                    !.stages = Append(@, "Predict"),
                                    !.base_calories =
                                        RegressorPredict(linear_regression_model.value,
                                                         r.user_features)]]
    /\ UNCHANGED <<disk, main_pc, globals>>

\* Line 117 (lines 54-57).  weeks * 7 = 0 raises ZeroDivisionError.
Adjust(w) ==
    /\ req[w].pc = "adjust"
    /\ LET r == req[w]
       IN  IF RatIsZero(AdjustmentDivisor(r.weeks))
           THEN req' = [req EXCEPT ![w] = Raise(r, "Adjust", "ZeroDivisionError")]
           ELSE req' = [req EXCEPT ![w] =
                          [r EXCEPT !.pc = "targets",
                                    !.stages = Append(@, "Adjust"),
                                    !.adjusted_calories =
                                        adjust_calories_for_goal(r.base_calories,
                                                                 r.weight_goal_kg, r.weeks)]]
    /\ UNCHANGED <<disk, main_pc, globals>>

\* Line 118.
ComputeTargets(w) ==
    /\ req[w].pc = "targets"
    /\ req' = [req EXCEPT ![w] =
                 [@ EXCEPT !.pc = "assemble",
                           !.stages = Append(@, "ComputeTargets"),
                           !.macronutrient_targets =
                               calculate_macronutrients(req[w].adjusted_calories)]]
    /\ UNCHANGED <<disk, main_pc, globals>>

\* Line 121 (lines 60-97).  Line 72 raises NameError when recipes_data is
\* unbound and KeyError when it has no 'calories' column; neither is caught.
Assemble(w) ==
    /\ req[w].pc = "assemble"
    /\ LET r == req[w]
       IN  IF ~recipes_data.defined
           THEN req' = [req EXCEPT ![w] = Raise(r, "Assemble", "NameError")]
           ELSE IF "calories" \notin recipes_data.value.columns
           THEN req' = [req EXCEPT ![w] = Raise(r, "Assemble", "KeyError")]
           ELSE \E res \in get_food_recommendations(recipes_data.value.rows,
                                                    r.adjusted_calories) :
                    req' = [req EXCEPT ![w] =
                              [r EXCEPT !.pc = "respond",
                                        !.stages = Append(@, "Assemble"),
                                        !.budgets = res.budgets,
                                        !.candidates = res.candidates,
                                        !.samples = res.samples,
                                        !.recommendations = res.recommendations]]
    /\ UNCHANGED <<disk, main_pc, globals>>

\* Lines 123-128.
Respond(w) ==
    /\ req[w].pc = "respond"
    /\ LET r == req[w]
       IN  req' = [req EXCEPT ![w] =
                     [r EXCEPT !.pc = "done",
                               !.stages = Append(@, "Respond"),
                               !.response =
                                   [status |-> 200,
                                    json |-> [recommended_foods |-> r.recommendations,
                                              base_calories |-> r.base_calories,
                                              adjusted_calories |-> r.adjusted_calories,
                                              macronutrient_targets |->
                                                  r.macronutrient_targets],
                                    exception |-> ""]]]
    /\ UNCHANGED <<disk, main_pc, globals>>

\* The response is sent, the locals are dropped and the thread is free for
\* the next request.
Finish(w) ==
    /\ req[w].pc = "done"
    /\ req' = [req EXCEPT ![w] = Idle]
    /\ UNCHANGED <<disk, main_pc, globals>>

Startup ==
    \/ LoadModels
    \/ LoadData
    \/ ApplyClustering
    \/ StartServer

Handle(w) ==
    \/ Receive(w)
    \/ Validate(w)
    \/ Predict(w)
    \/ Adjust(w)
    \/ ComputeTargets(w)
    \/ Assemble(w)
    \/ Respond(w)
    \/ Finish(w)

\* The threaded server: every worker thread handles requests.
Next == Startup \/ \E w \in Workers : Handle(w)

Spec == Init /\ [][Next]_vars

\* The server with a single thread, over every recipes file.
InitSequential == Boot(RecipeFiles)

NextSequential == Startup \/ Handle(1)

SpecSequential == InitSequential /\ [][NextSequential]_vars

(***************************************************************************)
(* Properties                                                              *)
(***************************************************************************)
Range(s) == {s[i] : i \in DOMAIN s}

IsPrefix(s, t) == Len(s) <= Len(t) /\ \A i \in 1..Len(s) : s[i] = t[i]

\* The body's "attributes" object holds all eight keys.
HasAllKeys(data) ==
    /\ "attributes" \in DOMAIN data
    /\ AllKeys \subseteq DOMAIN data.attributes

InFlight(w) == req[w].pc # "idle"

Answered(w) == req[w].pc = "done"

Ok(w) == Answered(w) /\ req[w].response.status = 200

\* get_food_recommendations has returned for the worker's request.
Assembled(w) == req[w].pc = "respond" \/ Ok(w)

DatasetUsable == recipes_data.defined /\ FeatureColumns \subseteq recipes_data.value.columns

FullyLoaded ==
    /\ kmeans_model.defined /\ mean_shift_model.defined
    /\ linear_regression_model.defined /\ nutrient_data.defined
    /\ DatasetUsable
    /\ {"kmeans_cluster", "meanshift_cluster"} \subseteq recipes_data.value.columns

CanonicalStages ==
    <<"Receive", "Validate", "Predict", "Adjust", "ComputeTargets", "Assemble", "Respond">>

\* C1: a request whose attributes object lacks one of the eight keys is
\* answered 400 with the fixed error message, and neither the predictor nor
\* the adjust, macronutrient or assemble stage runs for it.
C1_MissingKeyRejected ==
    \A w \in Workers :
        (InFlight(w) /\ ~HasAllKeys(req[w].data)) =>
            /\ req[w].pc \in {"validate", "done"}
            /\ Range(req[w].stages) \subseteq {"Receive", "Validate"}
            /\ Answered(w) =>
                /\ req[w].response.status = 400
                /\ DOMAIN req[w].response.json = {"error"}
                /\ req[w].response.json.error = ErrorMessage

\* A request lacking only the last key was answered 400 although the
\* regression model was loaded.
C1_Witness ==
    \E w \in Workers :
        /\ Answered(w)
        /\ "attributes" \in DOMAIN req[w].data
        /\ DOMAIN req[w].data.attributes = AllKeys \ {"gender_M"}
        /\ req[w].response.status = 400
        /\ linear_regression_model.defined

\* C2: a request with all eight keys and weeks <= 0 (or no "weeks") never
\* ends in an unhandled division error nor in a 200 response.
C2_NonPositiveWeeksRejected ==
    \A w \in Workers :
        (Answered(w) /\ HasAllKeys(req[w].data)
            /\ RatLe(Get(req[w].data, "weeks", ZeroRat), ZeroRat)) =>
            /\ req[w].response.exception # "ZeroDivisionError"
            /\ req[w].response.status # 200

\* C3: whenever the handler runs, the dataset and the three predictors are
\* fully loaded.
C3_HandlerRunsOnlyWhenLoaded ==
    (\E w \in Workers : InFlight(w)) => FullyLoaded

\* Stated apart from the handler's code: the share of the target a meal
\* gets, and the rows whose calories lie in [lo*m, hi*m] (lo, hi in tenths).
MealShare == <<Rat(1, 4), Rat(7, 20), Rat(2, 5)>>

Budget(w, m) == RatMul(MealShare[m], req[w].adjusted_calories)

Band(budget, lo, hi) ==
    {i \in DOMAIN recipes_data.value.rows :
        LET c == recipes_data.value.rows[i].nutrition[1]
        IN  /\ 10 * c[1] * budget[2] >= lo * budget[1] * c[2]
            /\ 10 * c[1] * budget[2] <= hi * budget[1] * c[2]}

\* C4: the candidate set of a meal with budget m is the set of rows with
\* calories in [0.8m, 1.2m] when that set is not empty, and otherwise the
\* set of rows with calories in [0.5m, 1.5m].
C4_CandidatesPrimaryElseWide ==
    \A w \in Workers :
        Assembled(w) =>
            \A m \in 1..3 :
                /\ Band(Budget(w, m), 8, 12) # {} =>
                        req[w].candidates[m] = Band(Budget(w, m), 8, 12)
                /\ Band(Budget(w, m), 8, 12) = {} =>
                        req[w].candidates[m] = Band(Budget(w, m), 5, 15)

\* One request with a meal that matched nothing at all, a meal served from
\* the wide range, and a meal served from the narrow range although the
\* wide range holds more rows.
C4_Witness ==
    \E w \in Workers :
        /\ Ok(w)
        /\ \E m \in 1..3 : Band(Budget(w, m), 5, 15) = {}
        /\ \E m \in 1..3 : /\ Band(Budget(w, m), 8, 12) = {}
                           /\ req[w].candidates[m] # {}
        /\ \E m \in 1..3 : /\ req[w].candidates[m] # {}
                           /\ req[w].candidates[m] # Band(Budget(w, m), 5, 15)

\* C5: the foods of a meal are min(3, |candidates|) pairwise distinct rows
\* of its candidate set; an empty candidate set gives an empty foods list
\* and the request is still answered 200.
C5_SampleWithoutReplacement ==
    \A w \in Workers :
        /\ Assembled(w) =>
            \A m \in 1..3 :
                LET cand == req[w].candidates[m]
                    smp == req[w].samples[m]
                    foods == req[w].recommendations[m].foods
                    rows == recipes_data.value.rows
                IN  /\ Len(smp) = IF Cardinality(cand) < 3 THEN Cardinality(cand) ELSE 3
                    /\ Range(smp) \subseteq cand
                    /\ Cardinality(Range(smp)) = Len(smp)
                    /\ Len(foods) = Len(smp)
                    /\ \A k \in 1..Len(foods) :
                        /\ foods[k].name = rows[smp[k]].name
                        /\ foods[k].nutrition.calories = rows[smp[k]].nutrition[1]
                    /\ cand = {} => foods = <<>>
        /\ (Answered(w) /\ "Assemble" \in Range(req[w].stages) /\ DatasetUsable) => Ok(w)

\* A 200 response with a meal that had more than three candidates and a
\* meal that had none.
C5_Witness ==
    \E w \in Workers :
        /\ Ok(w)
        /\ \E m \in 1..3 : /\ Cardinality(req[w].candidates[m]) > 3
                           /\ Len(req[w].response.json.recommended_foods[m].foods) = 3
        /\ \E m \in 1..3 : /\ req[w].candidates[m] = {}
                           /\ req[w].response.json.recommended_foods[m].foods = <<>>

C7_SameBodySameFigures ==
    \A v, w \in Workers :
        (Ok(v) /\ Ok(w) /\ req[v].data = req[w].data) =>
            /\ req[v].response.json.base_calories = req[w].response.json.base_calories
            /\ req[v].response.json.adjusted_calories =
                    req[w].response.json.adjusted_calories
            /\ req[v].response.json.macronutrient_targets =
                    req[w].response.json.macronutrient_targets

\* C7: under any interleaving of requests, no request changes the dataset
\* or the predictors, and the figures of a response depend only on the
\* request's own body.
C7_RequestsIsolated ==
    /\ [][main_pc = "serving" => UNCHANGED <<globals, disk>>]_vars
    /\ []C7_SameBodySameFigures

\* Both workers hold 200 responses to the same body, whose goal moved the
\* adjusted calories away from the baseline.
C7_Witness ==
    /\ Ok(1) /\ Ok(2)
    /\ req[1].data = req[2].data
    /\ req[1].response.json.adjusted_calories # req[1].response.json.base_calories

\* C8: for weeks > 0 the adjusted calories are
\* baseline + (7700 * weightGoalKg) / (weeks * 7); with a goal of 0 they
\* equal the baseline, and the response carries both figures.
C8_AdjustedCalories ==
    \A w \in Workers :
        (req[w].pc \in {"targets", "assemble", "respond"} \/ Ok(w)
            \/ (Answered(w) /\ "ComputeTargets" \in Range(req[w].stages))) =>
            LET base == req[w].base_calories
                adj == req[w].adjusted_calories
                goal == Get(req[w].data, "weight_goal_kg", ZeroRat)
                weeks == Get(req[w].data, "weeks", ZeroRat)
            IN  RatLt(ZeroRat, weeks) =>
                    /\ RatMul(adj, RatMul(Int2Rat(7), weeks)) =
                            RatAdd(RatMul(base, RatMul(Int2Rat(7), weeks)),
                                   RatMul(Int2Rat(7700), goal))
                    /\ RatIsZero(goal) => adj = base
                    /\ Ok(w) =>
                        /\ req[w].response.json.base_calories = base
                        /\ req[w].response.json.adjusted_calories = adj

\* The example of the specification: 2000 kcal, -5 kg over 10 weeks.
C8_Witness ==
    \E w \in Workers :
        /\ Ok(w)
        /\ req[w].data.weight_goal_kg = Int2Rat(-5)
        /\ req[w].data.weeks = Int2Rat(10)
        /\ req[w].response.json.base_calories = Int2Rat(2000)
        /\ req[w].response.json.adjusted_calories = Int2Rat(1450)

\* C9: the meal budgets are 0.25, 0.35 and 0.40 of the target, they sum to
\* the target, and each meal's candidates are matched against its own
\* budget.
C9_MealBudgets ==
    \A w \in Workers :
        Assembled(w) =>
            LET t == req[w].adjusted_calories
                b == req[w].budgets
            IN  /\ Len(b) = 3
                /\ RatMul(Int2Rat(4), b[1]) = t
                /\ RatMul(Int2Rat(20), b[2]) = RatMul(Int2Rat(7), t)
                /\ RatMul(Int2Rat(5), b[3]) = RatMul(Int2Rat(2), t)
                /\ RatAdd(RatAdd(b[1], b[2]), b[3]) = t
                /\ \A m \in 1..3 : req[w].candidates[m] \subseteq Band(b[m], 5, 15)
                /\ \A m \in 1..3 :
                        req[w].candidates[m] \in {Band(b[m], 8, 12), Band(b[m], 5, 15)}

\* The example of the specification: 2000 splits into 500, 700, 800.
C9_Witness ==
    \E w \in Workers :
        /\ Ok(w)
        /\ req[w].adjusted_calories = Int2Rat(2000)
        /\ req[w].budgets = <<Int2Rat(500), Int2Rat(700), Int2Rat(800)>>
        /\ \E m \in 1..3 : req[w].candidates[m] # {}

\* C10: with a negative adjusted target every meal has no candidates and an
\* empty foods list whatever the rows are, and the request is answered 200
\* (an error can only come from a dataset the startup left unusable).
C10_NegativeTargetEmptyMeals ==
    \A w \in Workers :
        RatLt(req[w].adjusted_calories, ZeroRat) =>
            /\ Assembled(w) =>
                \A m \in 1..3 : /\ req[w].candidates[m] = {}
                                /\ req[w].recommendations[m].foods = <<>>
            /\ Answered(w) =>
                \/ /\ req[w].response.status = 200
                   /\ Len(req[w].response.json.recommended_foods) = 3
                   /\ \A m \in 1..3 :
                        req[w].response.json.recommended_foods[m].foods = <<>>
                \/ /\ req[w].response.exception \in {"NameError", "KeyError"}
                   /\ ~DatasetUsable

\* A 200 response to a negative target, over a dataset holding a row whose
\* (negative) calories lie between 1.2m and 0.8m for a meal budget m.
C10_Witness ==
    \E w \in Workers :
        /\ Ok(w)
        /\ RatLt(req[w].response.json.adjusted_calories, ZeroRat)
        /\ \E m \in 1..3 : Band(Budget(w, m), 12, 8) # {}

====
